---- MODULE Spec2Model ----
(***************************************************************************)
(* A model of githubbot (server.ts): a stateless relay between GitHub      *)
(* webhooks and the Telegram bot API.                                       *)
(*                                                                         *)
(* Strings are sequences of symbols.  A symbol is one character, or a      *)
(* literal word of the program text that no operation of the program ever  *)
(* splits ("github", "telegramUpdate", the fixed parts of a message).      *)
(* JavaScript numbers are records [nan, val] so that NaN is a value.       *)
(* JSON objects are records whose DOMAIN is the set of keys present.       *)
(***************************************************************************)
EXTENDS Integers, Sequences, FiniteSets, TLC

VARIABLES
    options,    \* GitHubBot.options: the process configuration
    setup,      \* position of main() in its await of bot.setup()
    request,    \* the inbound request being handled
    pc,         \* position of the listenAndServe callback
    calls,      \* outbound calls to the chat platform made for the request
    failure,    \* the error caught by the callback's catch block, if any
    entry,      \* the entry point of the bot that route() invoked, if any
    reply,      \* what the entry point returned to serve*Webhook, if it returned
    responses,  \* the responses handed to req.respond for the request
    peer        \* the frame of a second invocation of the callback, running
                \* between the awaits of the first

vars == <<options, setup, request, pc, calls, entry, failure, reply, responses,
          peer>>

-----------------------------------------------------------------------------
(* Bounds *)

\* number of base64 symbols of a MAC before its padding
MacLen == 2

-----------------------------------------------------------------------------
(* JavaScript values and string operations *)

Num(v) == [nan |-> FALSE, val |-> v]
NaN == [nan |-> TRUE, val |-> 0]

Digits == <<"0", "1", "2", "3", "4", "5", "6", "7", "8", "9">>

IsDigit(ch) == \E i \in 1..Len(Digits) : Digits[i] = ch

DigitVal(ch) == (CHOOSE i \in 1..Len(Digits) : Digits[i] = ch) - 1

RECURSIVE DigitsPrefix(_)
DigitsPrefix(s) ==
    IF s = <<>> \/ ~IsDigit(Head(s)) THEN <<>>
    ELSE <<Head(s)>> \o DigitsPrefix(Tail(s))

RECURSIVE DigitsValue(_, _)
DigitsValue(acc, s) ==
    IF s = <<>> THEN acc
    ELSE DigitsValue(acc * 10 + DigitVal(Head(s)), Tail(s))

\* parseInt(s, 10): optional sign, then the longest prefix of decimal digits;
\* whatever follows the digits is dropped, no digit at all gives NaN
parseInt(s) ==
    LET signed == s # <<>> /\ Head(s) \in {"-", "+"}
        rest == IF signed THEN Tail(s) ELSE s
        ds == DigitsPrefix(rest)
    IN  IF ds = <<>> THEN NaN
        ELSE IF signed /\ Head(s) = "-" THEN Num(0 - DigitsValue(0, ds))
        ELSE Num(DigitsValue(0, ds))

RECURSIVE NatToString(_)
NatToString(n) ==
    IF n < 10 THEN <<Digits[n + 1]>>
    ELSE NatToString(n \div 10) \o <<Digits[(n % 10) + 1]>>

\* the template literal ${n} for a number n
NumberToString(n) ==
    IF n.nan THEN <<"N", "a", "N">>
    ELSE IF n.val < 0 THEN <<"-">> \o NatToString(0 - n.val)
    ELSE NatToString(n.val)

IndexOf(s, ch) ==
    IF \E i \in 1..Len(s) : s[i] = ch
    THEN CHOOSE i \in 1..Len(s) : s[i] = ch /\ \A j \in 1..(i - 1) : s[j] # ch
    ELSE 0

\* String.prototype.replace with a string pattern: the first occurrence only
StringReplace(s, ch, to) ==
    LET i == IndexOf(s, ch)
    IN  IF i = 0 THEN s
        ELSE SubSeq(s, 1, i - 1) \o to \o SubSeq(s, i + 1, Len(s))

Min(a, b) == IF a < b THEN a ELSE b

\* String.prototype.slice(start, end) for 0 <= start, 0 <= end
StringSlice(s, start, end) ==
    LET from == Min(start, Len(s))
        to == Min(end, Len(s))
    IN  IF from >= to THEN <<>> ELSE SubSeq(s, from + 1, to)

\* String.prototype.split(sep), empty pieces included
RECURSIVE StringSplit(_, _)
StringSplit(s, sep) ==
    LET i == IndexOf(s, sep)
    IN  IF i = 0 THEN <<s>>
        ELSE <<SubSeq(s, 1, i - 1)>> \o StringSplit(SubSeq(s, i + 1, Len(s)), sep)

\* { ...a, ...b }: the keys of both, b's value where both have the key
Spread(a, b) ==
    [k \in (DOMAIN a) \cup (DOMAIN b) |-> IF k \in DOMAIN b THEN b[k] ELSE a[k]]

Has(obj, key) == key \in DOMAIN obj

JSONNull == [jsonNull |-> TRUE]

-----------------------------------------------------------------------------
(* Signer *)

RECURSIVE Pow(_, _)
Pow(b, n) == IF n = 0 THEN 1 ELSE b * Pow(b, n - 1)

\* the symbols a base64 digest is made of: "A" stands for every symbol that
\* is already URL-safe, "+" and "/" are the two that are not
B64Alphabet == <<"A", "+", "/">>

\* the signing secrets: one per digest the keyed hash can give a message
Secrets == 0..(Pow(Len(B64Alphabet), MacLen) - 1)

SymbolCode(ch) ==
    IF IsDigit(ch) THEN DigitVal(ch) + 1
    ELSE IF ch = "-" THEN 11
    ELSE 12

RECURSIVE DataCode(_)
DataCode(d) ==
    IF d = <<>> THEN 0 ELSE SymbolCode(Head(d)) + 2 * DataCode(Tail(d))

RECURSIVE B64Symbols(_, _)
B64Symbols(n, len) ==
    IF len = 0 THEN <<>>
    ELSE B64Symbols(n \div Len(B64Alphabet), len - 1)
             \o <<B64Alphabet[(n % Len(B64Alphabet)) + 1]>>

\* hmac("sha1", key, data, "utf8", "base64"): a keyed function of the data;
\* over the secrets every digest occurs for every message.  A SHA-1 digest
\* is 20 bytes, so its base64 form ends in exactly one "=".
hmac(key, data) ==
    B64Symbols((key + DataCode(data)) % Pow(Len(B64Alphabet), MacLen), MacLen)
        \o <<"=">>

safeHMAC(opts, data) ==
    StringReplace(
        StringReplace(
            StringReplace(hmac(opts.secret, data), "+", <<"-">>),
            "/", <<"_">>),
        "=", <<>>)

\* generateWebhookURL with the digest as it comes, not mapped
generateWebhookURLUnmapped(opts, chatID) ==
    opts.baseURL \o <<"/", "github", "/">> \o NumberToString(chatID)
        \o <<"/">> \o hmac(opts.secret, NumberToString(chatID))

generateWebhookURL(opts, chatID) ==
    LET chatToken == safeHMAC(opts, NumberToString(chatID))
    IN  opts.baseURL \o <<"/", "github", "/">> \o NumberToString(chatID)
            \o <<"/">> \o chatToken

\* verifyWebhookURL comparing with the digest before its URL-safe mapping
verifyWebhookURLRaw(opts, chatID, chatToken) ==
    hmac(opts.secret, NumberToString(chatID)) = chatToken

verifyWebhookURL(opts, chatID, chatToken) ==
    safeHMAC(opts, NumberToString(chatID)) = chatToken

-----------------------------------------------------------------------------
(* What a function of the program does when called: it throws, it returns, *)
(* or it suspends on an outbound call and returns its value once that call   *)
(* has succeeded.                                                          *)

Throw(message) == [kind |-> "throw", message |-> message]

Return(value) == [kind |-> "return", value |-> value]

Call(action, data, value) ==
    [kind |-> "call", action |-> action, data |-> data, value |-> value]

Undefined == [undefined |-> TRUE]

EmptyObject == [k \in {} |-> k]

StartsWith(s, prefix) ==
    Len(s) >= Len(prefix) /\ SubSeq(s, 1, Len(prefix)) = prefix

\* the message of the TypeError raised by reading a property of null/undefined
TypeErrorMessage == <<"Cannot read property">>

\* the message of the SyntaxError raised by JSON.parse
SyntaxErrorMessage == <<"Unexpected token">>

Str(obj, key) == IF Has(obj, key) THEN obj[key] ELSE <<"undefined">>

-----------------------------------------------------------------------------
(* Event Formatter *)

RECURSIVE JoinLines(_)
JoinLines(lines) ==
    IF lines = <<>> THEN <<>>
    ELSE IF Len(lines) = 1 THEN Head(lines)
    ELSE Head(lines) \o <<"\n">> \o JoinLines(Tail(lines))

formatPing(ping) ==
    IF ping = JSONNull THEN Throw(TypeErrorMessage)
    ELSE Return(<<"You successfully set up GitHub notifications.\nGitHub Zen: ">>
                    \o Str(ping, "zen"))

\* the symbol that opens and closes inline code in Markdown
Backtick == "BACKTICK"

CommitLine(commit) ==
    <<Backtick>> \o StringSlice(commit.id, 0, 7) \o <<Backtick, " ">> \o Str(commit, "message")
        \o <<" - ">> \o Str(commit.author, "username")

formatPush(push) ==
    IF \/ push = JSONNull
       \/ ~Has(push, "ref") \/ ~Has(push, "sender") \/ ~Has(push, "commits")
       \/ ~Has(push, "repository")
    THEN Throw(TypeErrorMessage)
    ELSE IF \/ ~Has(push.repository, "branches_url")
            \/ \E i \in 1..Len(push.commits) :
                   ~Has(push.commits[i], "id") \/ ~Has(push.commits[i], "author")
    THEN Throw(TypeErrorMessage)
    ELSE
    LET branch == StringReplace(push.ref, "refs/heads/", <<>>)
        n == Len(push.commits)
    IN  Return(
          <<"[">> \o Str(push.sender, "login") \o <<"](">>
            \o Str(push.sender, "html_url") \o <<"): \n[">>
            \o NatToString(n) \o <<" new commit">>
            \o (IF n = 1 THEN <<>> ELSE <<"s">>)
            \o <<"](">> \o Str(push, "compare") \o <<") ">>
            \o (IF Has(push, "forced") /\ push.forced THEN <<"force-">> ELSE <<>>)
            \o <<"pushed to [", Backtick>> \o branch \o <<Backtick, "](">>
            \o StringReplace(push.repository.branches_url, "{/branch}",
                             <<"/">> \o branch)
            \o <<")\n">>
            \o JoinLines([i \in 1..n |-> CommitLine(push.commits[i])])
            \o <<"\n[_">> \o Str(push.repository, "full_name") \o <<"_](">>
            \o Str(push.repository, "html_url") \o <<")">>)

\* the own keys of the githubEventFormatters object
OwnFormatterKeys == {"ping", "push"}

\* the keys every object literal inherits from Object.prototype
ObjectPrototypeKeys ==
    {"constructor", "toString", "toLocaleString", "valueOf", "hasOwnProperty",
     "isPrototypeOf", "propertyIsEnumerable", "__proto__"}

\* event in githubEventFormatters: own and inherited keys alike
InFormatters(event) == event \in OwnFormatterKeys \cup ObjectPrototypeKeys

\* githubEventFormatters[event](data)
CallFormatter(event, data) ==
    CASE event = "ping" -> formatPing(data)
      [] event = "push" -> formatPush(data)
      [] event \in {"toString", "toLocaleString"} -> Return(<<"[object Object]">>)
      [] event = "__proto__" -> Throw(<<"githubEventFormatters[event] is not a function">>)
      [] OTHER -> Return(<<"[value of Object.prototype.", event, "]">>)

formatEventMessage(event, data) ==
    IF ~InFormatters(event)
    THEN Throw(<<"invalid", ": Event type ", event, " is not known">>)
    ELSE LET text == CallFormatter(event, data)
         IN  IF text.kind = "throw" THEN text
             ELSE Return([parse_mode |-> "Markdown", text |-> text.value,
                          disable_web_page_preview |-> TRUE])

-----------------------------------------------------------------------------
(* Bot Core and Command Interpreter *)

SetupTextHead ==
    <<"*Steps* ... 2. Paste the following URL as Payload URL:\n">>

SetupTextTail ==
    <<"\n3. Under Content-Type, choose application/json ...">>

AdvancedTextTail ==
    <<"\n\n*Advanced Flags*\n\nPass these flags as query parameters. ...\n\n">>

formatSetupMessage(opts, chatID) ==
    LET url == generateWebhookURL(opts, chatID)
    IN  [parse_mode |-> "Markdown",
         text |-> SetupTextHead \o url \o SetupTextTail,
         disable_web_page_preview |-> TRUE]

formatSetupAdvancedMessage(opts, chatID) ==
    LET text == formatSetupMessage(opts, chatID).text
    IN  [parse_mode |-> "Markdown",
         text |-> text \o AdvancedTextTail,
         disable_web_page_preview |-> TRUE]

formatUnknownCommandMessage(command) ==
    [text |-> <<"Oops, I do not understand your command ">> \o command]

SetupCommand == <<"/", "s", "e", "t", "u", "p">>

AdvancedAction == <<"updateMessageSetupAdvanced">>

SetupButton == [text |-> "Advanced Setup", callback_data |-> AdvancedAction]

SetupReplyMarkup == [inline_keyboard |-> << <<SetupButton>> >>]

\* updateMessageSetupAdvanced sending a new message instead of editing
updateMessageSetupAdvancedSend(opts, message, value) ==
    IF ~Has(message, "chat") THEN Throw(TypeErrorMessage)
    ELSE Call("sendMessage",
              Spread([chat_id |-> message.chat.id],
                     formatSetupAdvancedMessage(opts, message.chat.id)),
              value)

updateMessageSetupAdvanced(opts, message, value) ==
    IF ~Has(message, "chat") THEN Throw(TypeErrorMessage)
    ELSE Call("editMessageText",
              Spread(IF Has(message, "message_id")
                         THEN [chat_id |-> message.chat.id,
                               message_id |-> message.message_id]
                         ELSE [chat_id |-> message.chat.id],
                     formatSetupAdvancedMessage(opts, message.chat.id)),
              value)

\* githubEvent without the check of the binding
githubEventUnverified(opts, chatID, chatToken, params, event, data) ==
    LET message == formatEventMessage(event, data)
    IN  IF message.kind = "throw" THEN message
        ELSE Call("sendMessage",
                  Spread([chat_id |-> chatID,
                          disable_notification |-> params.silent],
                         message.value),
                  EmptyObject)

githubEvent(opts, chatID, chatToken, params, event, data) ==
    IF ~verifyWebhookURL(opts, chatID, chatToken)
    THEN Throw(<<"invalid", ": chatToken">>)
    ELSE LET message == formatEventMessage(event, data)
         IN  IF message.kind = "throw" THEN message
             ELSE Call("sendMessage",
                       Spread([chat_id |-> chatID,
                               disable_notification |-> params.silent],
                              message.value),
                       EmptyObject)

\* the check of the update secret accepting the default secret as well
UpdateAuthorizedOrDefault(opts, telegramSecret) ==
    telegramSecret \in {opts.telegramSecret, <<"insecure">>}

\* telegramSecret === this.options.telegramSecret
UpdateAuthorized(opts, telegramSecret) == telegramSecret = opts.telegramSecret

\* the comparison of the action taking every payload for the setup action
IsAdvancedActionAlways(action) == TRUE

\* action == "updateMessageSetupAdvanced"
IsAdvancedAction(action) == action = AdvancedAction

\* the message test giving way to a callback query in the same update
HasMessageOnly(data) == Has(data, "message") /\ ~Has(data, "callback_query")

\* if (data.message)
HasMessage(data) == Has(data, "message")

telegramUpdate(opts, telegramSecret, data) ==
    IF ~UpdateAuthorized(opts, telegramSecret)
    THEN Throw(<<"invalid", ": telegramSecret">>)
    ELSE IF data = JSONNull THEN Throw(TypeErrorMessage)
    ELSE IF HasMessage(data) THEN
        LET message == data.message
        IN  IF ~Has(message, "entities") \/ Len(message.entities) < 1
            THEN Return(Undefined)
            ELSE IF ~Has(message, "text") \/ ~Has(message, "chat")
            THEN Throw(TypeErrorMessage)
            ELSE
            LET first == message.entities[1]
                firstEntity == StringSlice(message.text, first.offset,
                                           first.offset + first.length)
                command == StringSplit(firstEntity, "@")[1]
            IN  IF command = SetupCommand
                THEN Return(
                       Spread(Spread([method |-> "sendMessage",
                                      chat_id |-> message.chat.id],
                                     formatSetupMessage(opts, message.chat.id)),
                              [reply_markup |-> SetupReplyMarkup]))
                ELSE Return(
                       Spread([method |-> "sendMessage",
                               chat_id |-> message.chat.id],
                              formatUnknownCommandMessage(command)))
    ELSE IF Has(data, "callback_query") THEN
        LET callback_query == data.callback_query
        IN  IF \/ ~Has(callback_query, "message")
               \/ ~Has(callback_query, "data")
               \/ callback_query.data = <<>>
            THEN Return(Undefined)
            ELSE IF IsAdvancedAction(callback_query.data)
            THEN updateMessageSetupAdvanced(opts, callback_query.message,
                                            [method |-> "answerCallbackQuery"])
            ELSE Return([method |-> "answerCallbackQuery"])
    ELSE Return(Undefined)

\* the answers the chat platform can give to an outbound call
Answers == {"ok", "okNotJSON", "error", "unreachable"}

\* the body of a non-success answer of the chat platform
UpstreamErrorBody == <<"invalid", " request">>

\* telegramApi once fetch has settled with the given answer
telegramApi(answer) ==
    CASE answer = "unreachable" -> Throw(<<"error sending request">>)
      [] answer = "error" ->
            Throw(<<"Failure to perform API request: ">> \o UpstreamErrorBody)
      [] answer = "okNotJSON" -> Throw(SyntaxErrorMessage)
      [] OTHER -> Return([ok |-> TRUE])

setupTelegramWebhook(opts) ==
    Call("setWebhook",
         [url |-> opts.baseURL \o <<"/", "telegramUpdate", "/">> \o opts.telegramSecret],
         Undefined)

-----------------------------------------------------------------------------
(* Router *)

Respond(response) == [kind |-> "respond", response |-> response]

\* respondIfReply answering every return, undefined too, as a JSON reply
respondIfReplyAlways(r) ==
    [status |-> 200, contentType |-> "application/json", body |-> [json |-> r]]

respondIfReply(r) ==
    IF r # Undefined
    THEN [status |-> 200, contentType |-> "application/json", body |-> [json |-> r]]
    ELSE [status |-> 200, body |-> [text |-> "Success"]]

serveBadRequest == [status |-> 400, body |-> [text |-> "Bad Request"]]

serveNotFound == [status |-> 404, body |-> [text |-> "Not Found"]]

serveMethodNotAllowed == [status |-> 405, body |-> [text |-> "Method Not Allowed"]]

serveInternalServerError ==
    [status |-> 500, body |-> [text |-> "Unknown Internal Server Error"]]

\* new URL(req.url, base).pathname: the URL up to its first "?"
URLPathname(url) == StringSplit(url, "?")[1]

\* the query string: what follows the first "?"
URLSearch(url) ==
    LET i == IndexOf(url, "?")
    IN  IF i = 0 THEN <<>> ELSE SubSeq(url, i + 1, Len(url))

\* has(name) matching the whole query string against the name
SearchParamsHasExact(search, name) == search = <<name>>

\* URLSearchParams.has(name)
SearchParamsHas(search, name) ==
    LET pairs == StringSplit(search, "&")
    IN  \E i \in 1..Len(pairs) :
            pairs[i] # <<>> /\ StringSplit(pairs[i], "=")[1] = <<name>>

\* Headers.get(name): the value, or null, which is the property key "null"
\* where the program uses it
HeadersGet(headers, name) ==
    IF name \in DOMAIN headers THEN headers[name] ELSE "null"

\* JSON.parse(decoder.decode(body))
JSONParse(body) ==
    IF body.wellFormed THEN Return(body.json) ELSE Throw(SyntaxErrorMessage)

serveGitHubWebhook(opts, req, parts, search) ==
    LET chatID == parseInt(parts[1])
        chatToken == parts[2]
        params == [silent |-> SearchParamsHas(search, "silent")]
        data == JSONParse(req.body)
        event == HeadersGet(req.headers, "X-GitHub-Event")
    IN  IF data.kind = "throw" THEN [entry |-> "none", effect |-> data]
        ELSE [entry |-> "githubEvent",
              effect |-> githubEvent(opts, chatID, chatToken, params, event,
                                     data.value)]

serveTelegramWebhook(opts, req, parts) ==
    LET telegramSecret == parts[1]
        data == JSONParse(req.body)
    IN  IF data.kind = "throw" THEN [entry |-> "none", effect |-> data]
        ELSE [entry |-> "telegramUpdate",
              effect |-> telegramUpdate(opts, telegramSecret, data.value)]

\* url.pathname.split("/").filter(part => part)
PathParts(url) ==
    SelectSeq(StringSplit(URLPathname(url), "/"), LAMBDA part : part # <<>>)

\* route taking every path under /github and /telegramUpdate for the endpoint
routeByPrefix(opts, req) ==
    LET search == URLSearch(req.url)
        parts == PathParts(req.url)
    IN  IF Len(parts) \in {2, 3} /\ req.method # "POST"
        THEN [entry |-> "none", effect |-> Respond(serveMethodNotAllowed)]
        ELSE IF Len(parts) >= 2 /\ parts[1] = <<"telegramUpdate">>
        THEN serveTelegramWebhook(opts, req, <<parts[2]>>)
        ELSE IF Len(parts) >= 3 /\ parts[1] = <<"github">>
        THEN serveGitHubWebhook(opts, req, <<parts[2], parts[3]>>, search)
        ELSE [entry |-> "none", effect |-> Respond(serveNotFound)]

route(opts, req) ==
    LET search == URLSearch(req.url)
        parts == PathParts(req.url)
    IN  IF Len(parts) = 2 /\ req.method # "POST"
        THEN [entry |-> "none", effect |-> Respond(serveMethodNotAllowed)]
        ELSE IF Len(parts) = 2 /\ parts[1] = <<"telegramUpdate">>
        THEN serveTelegramWebhook(opts, req, <<parts[2]>>)
        ELSE IF Len(parts) = 3 /\ req.method # "POST"
        THEN [entry |-> "none", effect |-> Respond(serveMethodNotAllowed)]
        ELSE IF Len(parts) = 3 /\ parts[1] = <<"github">>
        THEN serveGitHubWebhook(opts, req, <<parts[2], parts[3]>>, search)
        ELSE [entry |-> "none", effect |-> Respond(serveNotFound)]

\* the catch block looking for the tag anywhere in the message
CatchResponseAnywhere(message) ==
    IF \E i \in 1..Len(message) : message[i] = "invalid" THEN serveBadRequest
    ELSE serveInternalServerError

\* the catch block of the listenAndServe callback
CatchResponse(message) ==
    IF StartsWith(message, <<"invalid">>) THEN serveBadRequest
    ELSE serveInternalServerError

-----------------------------------------------------------------------------
(* The environment: configurations and inbound requests *)

\* the values of TELEGRAM_SECRET in the environment; <<>> is unset
EnvTelegramSecrets == {<<>>, <<"tgsecret">>}

\* main(): the options built from the environment
MainOptions(secret, envTelegramSecret) ==
    [telegramToken |-> <<"TOKEN">>,
     telegramSecret |-> IF envTelegramSecret # <<>> THEN envTelegramSecret
                        ELSE <<"insecure">>,
     secret |-> secret,
     baseURL |-> <<"https://bot.example">>,
     listen |-> <<"127.0.0.1:8080">>]

ChatIDs == {Num(42), Num(0 - 7)}

\* the chat segment of a webhook URL as a client may write it
ChatSegments == {<<"4", "2">>, <<"-", "7">>, <<"4", "2", "x">>}

\* the tokens a client may present: the issued ones, an unmapped digest, a guess
Tokens(opts) ==
    {safeHMAC(opts, NumberToString(c)) : c \in ChatIDs}
        \cup {hmac(opts.secret, <<"4", "2">>), <<"w">>}

Queries ==
    {<<>>, <<"?", "silent">>, <<"?", "silent", "=", "1">>,
     <<"?", "x", "=", "silent">>, <<"?", "x", "=", "1", "&", "silent">>}

JSONBody(v) == [wellFormed |-> TRUE, json |-> v]

MalformedBody == [wellFormed |-> FALSE]

PingPayload == [zen |-> <<"Z">>, hook_id |-> Num(1)]

Commit(id) ==
    [id |-> <<id, "1", "2", "3", "4", "5", "6", "7", "8">>,
     message |-> <<"fix">>,
     author |-> [name |-> <<"Al">>, username |-> <<"al">>]]

PushPayload(commits, forced) ==
    [ref |-> <<"refs/heads/", "m", "a", "i", "n">>,
     sender |-> [login |-> <<"al">>, html_url |-> <<"https://github.com/al">>],
     repository |-> [full_name |-> <<"al/repo">>,
                     html_url |-> <<"https://github.com/al/repo">>,
                     branches_url |-> <<"https://api.github.com/repos/al/repo/branches",
                                        "{/branch}">>],
     commits |-> commits,
     compare |-> <<"https://github.com/al/repo/compare/a...b">>,
     forced |-> forced]

PushPayloads ==
    {PushPayload(<<Commit("a")>>, FALSE), PushPayload(<<Commit("a"), Commit("b")>>, TRUE)}

\* the payload of an event of another type
IssuesPayload == [action |-> <<"opened">>]

GitHubBodies ==
    {MalformedBody, JSONBody(JSONNull), JSONBody(IssuesPayload), JSONBody(PingPayload)}
        \cup {JSONBody(p) : p \in PushPayloads}

\* the values of the X-GitHub-Event header; "null" is the missing header
EventHeaders == {"ping", "push", "issues", "toString", "__proto__"}

Headers(event) ==
    [h \in {"Content-Type", "X-GitHub-Event"} |->
        IF h = "Content-Type" THEN "application/json" ELSE event]

NoEventHeaders == [h \in {"Content-Type"} |-> "application/json"]

GitHubURLs(opts) ==
    {<<"/", "github", "/">> \o seg \o <<"/">> \o tok \o q :
        seg \in ChatSegments, tok \in Tokens(opts), q \in Queries}

GitHubRequests(opts) ==
    {[method |-> "POST", url |-> u, headers |-> h, body |-> b] :
        u \in GitHubURLs(opts),
        h \in {Headers(e) : e \in EventHeaders} \cup {NoEventHeaders},
        b \in GitHubBodies}

Entity(offset, length) == [type |-> "bot_command", offset |-> offset, length |-> length]

EntityLists ==
    {<<>>, <<Entity(0, 6)>>, <<Entity(0, 8)>>, <<Entity(1, 3), Entity(0, 6)>>}

Texts == {SetupCommand, SetupCommand \o <<"@", "b">>, <<"/", "h">>}

MessageBase(c) == [message_id |-> Num(5), date |-> Num(1), chat |-> [id |-> c]]

Messages ==
    {MessageBase(c) : c \in ChatIDs}
        \cup {Spread(MessageBase(c), [text |-> t]) : c \in ChatIDs, t \in Texts}
        \cup {Spread(MessageBase(c), [entities |-> es]) :
                  c \in ChatIDs, es \in EntityLists}
        \cup {Spread(MessageBase(c), [text |-> t, entities |-> es]) :
                  c \in ChatIDs, t \in Texts, es \in EntityLists}

CallbackBase == [id |-> Num(9)]

CallbackMessages == {Spread(MessageBase(c), [text |-> <<"sent">>]) : c \in ChatIDs}

CallbackData == {<<>>, AdvancedAction, <<"other">>}

CallbackQueries ==
    {CallbackBase}
        \cup {Spread(CallbackBase, [message |-> m]) : m \in CallbackMessages}
        \cup {Spread(CallbackBase, [data |-> d]) : d \in CallbackData}
        \cup {Spread(CallbackBase, [message |-> m, data |-> d]) :
                  m \in CallbackMessages, d \in CallbackData}

UpdateBase == [update_id |-> Num(1)]

\* updates that carry both a message and a callback query
DoubleUpdates ==
    {Spread(UpdateBase, [message |-> m, callback_query |-> q]) :
        m \in {MessageBase(Num(42)),
               Spread(MessageBase(Num(42)),
                      [text |-> SetupCommand, entities |-> <<Entity(0, 6)>>])},
        q \in {Spread(CallbackBase,
                      [message |-> Spread(MessageBase(Num(42)), [text |-> <<"sent">>]),
                       data |-> AdvancedAction])}}

Updates ==
    {UpdateBase}
        \cup {Spread(UpdateBase, [message |-> m]) : m \in Messages}
        \cup {Spread(UpdateBase, [callback_query |-> q]) : q \in CallbackQueries}
        \cup DoubleUpdates

TelegramBodies == {MalformedBody, JSONBody(JSONNull)} \cup {JSONBody(u) : u \in Updates}

PresentedSecrets == {<<"tgsecret">>, <<"insecure">>, <<"wrong">>}

TelegramURLs == {<<"/", "telegramUpdate", "/">> \o s : s \in PresentedSecrets}

TelegramRequests ==
    {[method |-> "POST", url |-> u, headers |-> NoEventHeaders, body |-> b] :
        u \in TelegramURLs, b \in TelegramBodies}

\* paths of neither shape
OtherURLs ==
    {<<"/">>, <<"/", "github">>, <<"/", "github", "/", "4", "2">>,
     <<"/", "telegramUpdate">>, <<"/", "other", "/", "x">>,
     <<"/", "other", "/", "x", "/", "y">>,
     <<"/", "github", "/", "4", "2", "/", "w", "/", "z">>,
     <<"/", "telegramUpdate", "/", "tgsecret", "/", "x">>}

OtherRequests(opts) ==
    {[method |-> m, url |-> u, headers |-> Headers("push"),
      body |-> JSONBody(PingPayload)] :
        m \in {"GET", "POST"}, u \in OtherURLs}
    \cup
    {[method |-> "GET", url |-> u, headers |-> Headers("push"),
      body |-> JSONBody(PingPayload)] :
        u \in GitHubURLs(opts) \cup TelegramURLs}

Requests(opts) == GitHubRequests(opts) \cup TelegramRequests \cup OtherRequests(opts)

NoRequest == [method |-> "none"]

-----------------------------------------------------------------------------
(* The process *)

\* the locals of an invocation of the callback that handles no request
IdleFrame ==
    [request |-> NoRequest, pc |-> "idle", calls |-> <<>>, entry |-> "none",
     failure |-> <<>>, reply |-> <<>>, responses |-> <<>>]

Init ==
    /\ options \in {MainOptions(k, t) : k \in Secrets, t \in EnvTelegramSecrets}
    /\ setup = "calling"
    /\ request = NoRequest
    /\ pc = "idle"
    /\ calls = <<>>
    /\ entry = "none"
    /\ failure = <<>>
    /\ reply = <<>>
    /\ responses = <<>>
    /\ peer = IdleFrame

\* a process that outlives the rejection of setup()
RunningAlways == TRUE

\* the process runs until the rejection of bot.setup() ends it
Running == setup # "failed"

\* the listenAndServe callback, from the arrival of a request until it
\* responds or suspends on the fetch of an outbound call
ServeAmong(reqs) ==
    /\ Running
    /\ pc = "idle"
    /\ \E req \in reqs :
       \E routed \in {route(options, req)} :
       LET effect == routed.effect
       IN  /\ request' = req
           /\ entry' = routed.entry
           /\ CASE effect.kind = "call" ->
                     /\ pc' = "fetch"
                     /\ calls' = <<[action |-> effect.action, data |-> effect.data,
                                    answer |-> "pending"]>>
                     /\ UNCHANGED <<failure, reply, responses>>
                [] effect.kind = "throw" ->
                     /\ pc' = "done"
                     /\ failure' = <<effect.message>>
                     /\ responses' = <<CatchResponse(effect.message)>>
                     /\ UNCHANGED <<calls, reply>>
                [] effect.kind = "return" ->
                     /\ pc' = "done"
                     /\ reply' = <<effect.value>>
                     /\ responses' = <<respondIfReply(effect.value)>>
                     /\ UNCHANGED <<calls, failure>>
                [] effect.kind = "respond" ->
                     /\ pc' = "done"
                     /\ responses' = <<effect.response>>
                     /\ UNCHANGED <<calls, failure, reply>>
    /\ UNCHANGED <<options, setup, peer>>

Serve == ServeAmong(Requests(options))

\* the fetch of the outbound call settles and the callback runs to its end
TelegramApiReturn(answer) ==
    /\ Running
    /\ pc = "fetch"
    /\ calls' = [calls EXCEPT ![Len(calls)].answer = answer]
    /\ pc' = "done"
    /\ \E value \in {route(options, request).effect.value} :
       LET result == telegramApi(answer)
       IN  IF result.kind = "throw"
           THEN /\ failure' = <<result.message>>
                /\ responses' = <<CatchResponse(result.message)>>
                /\ UNCHANGED reply
           ELSE /\ reply' = <<value>>
                /\ responses' = <<respondIfReply(value)>>
                /\ UNCHANGED failure
    /\ UNCHANGED <<options, setup, request, entry, peer>>

\* the response is on the wire; the callback's frame is gone
Finish ==
    /\ Running
    /\ pc = "done"
    /\ pc' = "idle"
    /\ request' = NoRequest
    /\ calls' = <<>>
    /\ entry' = "none"
    /\ failure' = <<>>
    /\ reply' = <<>>
    /\ responses' = <<>>
    /\ UNCHANGED <<options, setup, peer>>

\* the setWebhook call of bot.setup() settles; a failure rejects main()
SetupReturn(answer) ==
    /\ setup = "calling"
    /\ setup' = IF telegramApi(answer).kind = "throw" THEN "failed" ELSE "ready"
    /\ UNCHANGED <<options, request, pc, calls, entry, failure, reply, responses,
                    peer>>

\* the callback run on its own locals, from the arrival of a request until
\* it responds or suspends on the fetch of an outbound call
ServeFrame(opts, req) ==
    LET routed == route(opts, req)
        effect == routed.effect
        base == [IdleFrame EXCEPT !.request = req, !.entry = routed.entry]
    IN  CASE effect.kind = "call" ->
               [base EXCEPT !.pc = "fetch",
                            !.calls = <<[action |-> effect.action,
                                         data |-> effect.data,
                                         answer |-> "pending"]>>]
          [] effect.kind = "throw" ->
               [base EXCEPT !.pc = "done",
                            !.failure = <<effect.message>>,
                            !.responses = <<CatchResponse(effect.message)>>]
          [] effect.kind = "return" ->
               [base EXCEPT !.pc = "done",
                            !.reply = <<effect.value>>,
                            !.responses = <<respondIfReply(effect.value)>>]
          [] effect.kind = "respond" ->
               [base EXCEPT !.pc = "done", !.responses = <<effect.response>>]

\* the suspended callback resumed by the answer to its outbound call
ResumeFrame(opts, frame, answer) ==
    LET value == route(opts, frame.request).effect.value
        result == telegramApi(answer)
        settled == [frame EXCEPT !.pc = "done",
                                 !.calls[Len(frame.calls)].answer = answer]
    IN  IF result.kind = "throw"
        THEN [settled EXCEPT !.failure = <<result.message>>,
                             !.responses = <<CatchResponse(result.message)>>]
        ELSE [settled EXCEPT !.reply = <<value>>,
                             !.responses = <<respondIfReply(value)>>]

\* response declared once for all invocations of the callback
ResponseOwnerShared(invocation) == 1

\* let response: declared inside the callback, one per invocation
ResponseOwner(invocation) == invocation

\* the second invocation stores its locals; its response goes to the
\* variable that the declaration of response gives it
PeerStore(frame) ==
    IF ResponseOwner(2) = 2
    THEN /\ peer' = frame
         /\ UNCHANGED responses
    ELSE /\ peer' = [frame EXCEPT !.responses = <<>>]
         /\ responses' = IF frame.responses # <<>> THEN frame.responses
                         ELSE responses

\* requests of every kind, for two invocations at a time
ConcRequests(opts) ==
    {[method |-> "POST",
      url |-> <<"/", "github", "/", "4", "2", "/">>
                  \o safeHMAC(opts, <<"4", "2">>) \o <<"?", "silent">>,
      headers |-> Headers("ping"), body |-> JSONBody(PingPayload)],
     [method |-> "POST",
      url |-> <<"/", "github", "/", "-", "7", "/">>
                  \o safeHMAC(opts, <<"-", "7">>),
      headers |-> Headers("push"), body |-> JSONBody(PingPayload)],
     [method |-> "POST",
      url |-> <<"/", "github", "/", "4", "2", "/", "w">>,
      headers |-> Headers("ping"), body |-> JSONBody(PingPayload)],
     [method |-> "POST",
      url |-> <<"/", "telegramUpdate", "/">> \o opts.telegramSecret,
      headers |-> NoEventHeaders,
      body |-> JSONBody(Spread(UpdateBase,
                  [callback_query |->
                      Spread(CallbackBase,
                             [message |-> Spread(MessageBase(Num(42)),
                                                 [text |-> <<"sent">>]),
                              data |-> AdvancedAction])]))],
     [method |-> "POST",
      url |-> <<"/", "telegramUpdate", "/">> \o opts.telegramSecret,
      headers |-> NoEventHeaders,
      body |-> JSONBody(Spread(UpdateBase,
                  [message |-> Spread(MessageBase(Num(0 - 7)),
                                      [text |-> SetupCommand,
                                       entities |-> <<Entity(0, 6)>>])]))],
     [method |-> "GET", url |-> <<"/", "other", "/", "x">>,
      headers |-> Headers("push"), body |-> JSONBody(PingPayload)]}

ConcServe == ServeAmong(ConcRequests(options))

\* a second invocation of the callback starts while the first is suspended
\* or before its response is written
PeerServe ==
    /\ Running
    /\ peer.pc = "idle"
    /\ \E req \in ConcRequests(options) : PeerStore(ServeFrame(options, req))
    /\ UNCHANGED <<options, setup, request, pc, calls, entry, failure, reply>>

PeerTelegramApiReturn(answer) ==
    /\ Running
    /\ peer.pc = "fetch"
    /\ PeerStore(ResumeFrame(options, peer, answer))
    /\ UNCHANGED <<options, setup, request, pc, calls, entry, failure, reply>>

PeerFinish ==
    /\ Running
    /\ peer.pc = "done"
    /\ peer' = IdleFrame
    /\ UNCHANGED <<options, setup, request, pc, calls, entry, failure, reply,
                    responses>>

Next ==
    \/ Serve
    \/ \E answer \in Answers : TelegramApiReturn(answer)
    \/ Finish
    \/ \E answer \in Answers : SetupReturn(answer)

Spec == Init /\ [][Next]_vars

\* two invocations of the callback interleaved at their awaits
ConcNext ==
    \/ ConcServe
    \/ \E answer \in Answers : TelegramApiReturn(answer)
    \/ Finish
    \/ PeerServe
    \/ \E answer \in Answers : PeerTelegramApiReturn(answer)
    \/ PeerFinish
    \/ \E answer \in Answers : SetupReturn(answer)

ConcSpec == Init /\ [][ConcNext]_vars

-----------------------------------------------------------------------------
(* Vocabulary of the properties *)

\* the callback has been invoked for a request
Handling == pc \in {"fetch", "done"}

\* the callback has run to its end
Handled == pc = "done"

Status == responses[1].status

GitHubPost ==
    /\ request.method = "POST"
    /\ Len(PathParts(request.url)) = 3
    /\ PathParts(request.url)[1] = <<"github">>

TelegramPost ==
    /\ request.method = "POST"
    /\ Len(PathParts(request.url)) = 2
    /\ PathParts(request.url)[1] = <<"telegramUpdate">>

PresentedChatID == parseInt(PathParts(request.url)[2])

PresentedToken == PathParts(request.url)[3]

PresentedSecret == PathParts(request.url)[2]

PresentedEvent == HeadersGet(request.headers, "X-GitHub-Event")

\* sign(chatID): the token of the URL issued for the chat, which is what
\* follows <baseURL>/github/<chatID>/ in it
WebhookURLPrefix(chatID) ==
    options.baseURL \o <<"/", "github", "/">> \o NumberToString(chatID) \o <<"/">>

Sign(chatID) ==
    SubSeq(generateWebhookURL(options, chatID),
           Len(WebhookURLPrefix(chatID)) + 1,
           Len(generateWebhookURL(options, chatID)))

NoOutboundCall == calls = <<>>

-----------------------------------------------------------------------------
(* C1 *)

\* C1: a POST /github/<chatID>/<token> with a well-formed JSON body and a
\* token other than sign(chatID) is answered 400 and makes no outbound call,
\* whatever its event type, payload and silent flag.
C1_InvalidTokenRejected ==
    (Handling /\ GitHubPost /\ request.body.wellFormed
        /\ PresentedToken # Sign(PresentedChatID))
    => (Handled /\ Status = 400 /\ NoOutboundCall)

C1_Witness ==
    /\ Handled /\ GitHubPost /\ request.body.wellFormed
    /\ PresentedToken # Sign(PresentedChatID)
    /\ PresentedEvent = "push"
    /\ request.body.json \in PushPayloads
    /\ SearchParamsHas(URLSearch(request.url), "silent")
    /\ Status = 400

-----------------------------------------------------------------------------
(* C2 *)

\* the path of the URL issued for a chat
IssuedPath(chatID) ==
    <<"/", "github", "/">> \o NumberToString(chatID) \o <<"/">> \o Sign(chatID)

AnsweredOK == \A i \in 1..Len(calls) : calls[i].answer = "ok"

\* C2: for every chat c, a POST /github/c/sign(c) with event push and a push
\* payload, the chat platform answering success, is answered 200 and causes
\* exactly one outbound call, a sendMessage whose chat_id is c.
C2_PushDelivered ==
    \A c \in ChatIDs :
        (Handled /\ request.method = "POST"
            /\ URLPathname(request.url) = IssuedPath(c)
            /\ PresentedEvent = "push"
            /\ request.body.wellFormed /\ request.body.json \in PushPayloads
            /\ AnsweredOK)
        => (/\ Status = 200
            /\ Len(calls) = 1
            /\ calls[1].action = "sendMessage"
            /\ calls[1].data.chat_id = c)

-----------------------------------------------------------------------------
(* C3 *)

\* C3: under every configuration verify(chatID, token) is true exactly when
\* token equals sign(chatID); a request that reaches githubEvent fails with the invalid-token error
\* exactly when its token is not sign(chatID).
C3_VerifyIffSigned ==
    /\ pc = "idle" =>
       \A c \in ChatIDs \cup {NaN} : \A t \in Tokens(options) \cup {Sign(c)} :
               verifyWebhookURL(options, c, t) <=> (t = Sign(c))
    /\ (Handling /\ entry = "githubEvent")
       => ((failure = << <<"invalid", ": chatToken">> >>)
              <=> (PresentedToken # Sign(PresentedChatID)))

C3_Witness ==
    /\ pc = "fetch" /\ entry = "githubEvent"
    /\ PresentedToken = Sign(PresentedChatID)
    /\ \E i \in 1..Len(PresentedToken) : PresentedToken[i] \in {"-", "_"}

-----------------------------------------------------------------------------
(* C4 *)

URLSafe(token) ==
    \A i \in 1..Len(token) : token[i] \notin {"+", "/", "="}

\* the URL in the text of a setup reply
URLOfSetupText(text) ==
    SubSeq(text, Len(SetupTextHead) + 1, Len(text) - Len(SetupTextTail))

\* C4: the token of every issued URL is URL-safe: it has no "+", no "/" and
\* no "=".
C4_TokenURLSafe ==
    \A c \in ChatIDs :
        (Handled /\ reply # <<>> /\ Has(reply[1], "reply_markup")
            /\ reply[1].chat_id = c)
        => URLSafe(SubSeq(URLOfSetupText(reply[1].text),
                          Len(WebhookURLPrefix(c)) + 1,
                          Len(URLOfSetupText(reply[1].text))))

-----------------------------------------------------------------------------
(* C5 *)

\* C5: a POST /telegramUpdate/<s> with a well-formed JSON body and s other
\* than the configured update secret is answered 400, returns no inline reply
\* and makes no outbound call, whatever the update contains.
C5_WrongSecretRejected ==
    (Handling /\ TelegramPost /\ request.body.wellFormed
        /\ PresentedSecret # options.telegramSecret)
    => (Handled /\ Status = 400 /\ reply = <<>> /\ NoOutboundCall)

C5_Witness ==
    /\ Handled /\ TelegramPost /\ request.body.wellFormed
    /\ PresentedSecret = <<"insecure">>
    /\ options.telegramSecret = <<"tgsecret">>
    /\ request.body.json # JSONNull
    /\ Has(request.body.json, "callback_query")
    /\ Has(request.body.json.callback_query, "data")
    /\ request.body.json.callback_query.data = AdvancedAction
    /\ Has(request.body.json.callback_query, "message")
    /\ Status = 400

-----------------------------------------------------------------------------
(* C6 *)

\* C6: a correctly signed POST /github/<chatID>/<token> whose event type is
\* neither ping nor push fails with the unsupported-event error: it is
\* answered 400 and no outbound call is made.
C6_UnknownEventRejected ==
    (Handling /\ GitHubPost /\ request.body.wellFormed
        /\ PresentedToken = Sign(PresentedChatID)
        /\ PresentedEvent \notin {"ping", "push"})
    => (/\ Handled /\ Status = 400 /\ NoOutboundCall
        /\ failure = << <<"invalid", ": Event type ", PresentedEvent, " is not known">> >>)

-----------------------------------------------------------------------------
(* C7 *)

\* C7: a request gets one response, at the end of its handling; a failure is
\* answered 400 if its message begins with "invalid" and 500 otherwise; a
\* non-success answer of the chat platform is answered 500.
C7_FailureMapping ==
    /\ Len(responses) <= 1
    /\ (pc = "done") <=> (Len(responses) = 1)
    /\ failure # <<>> =>
          /\ Handled
          /\ Status = IF Head(failure[1]) = "invalid" THEN 400 ELSE 500
    /\ (Handled /\ calls # <<>> /\ calls[Len(calls)].answer = "error") =>
          /\ failure = << <<"Failure to perform API request: ">> \o UpstreamErrorBody >>
          /\ Status = 500

C7_Witness ==
    /\ Handled
    /\ calls # <<>> /\ calls[1].answer = "error" /\ calls[1].action = "sendMessage"
    /\ Status = 500

-----------------------------------------------------------------------------
(* C8 *)

UpdateAuthenticated ==
    TelegramPost /\ request.body.wellFormed /\ PresentedSecret = options.telegramSecret

\* C8: malformed input never yields 500: a POST to either endpoint whose body
\* is not valid JSON is answered 400, and an authenticated update with a
\* message that has entities but no text is ignored with 200 and no reply.
C8_MalformedInputNever500 ==
    Handled =>
        /\ ((GitHubPost \/ TelegramPost) /\ ~request.body.wellFormed) => Status = 400
        /\ (/\ UpdateAuthenticated
            /\ request.body.json # JSONNull
            /\ Has(request.body.json, "message")
            /\ Has(request.body.json.message, "entities")
            /\ request.body.json.message.entities # <<>>
            /\ ~Has(request.body.json.message, "text"))
           => (Status = 200 /\ reply = <<Undefined>> /\ NoOutboundCall)

-----------------------------------------------------------------------------
(* C9 *)

\* the update is a callback query, with its message, asking for the advanced text
AdvancedCallback ==
    /\ UpdateAuthenticated
    /\ request.body.json # JSONNull
    /\ ~Has(request.body.json, "message")
    /\ Has(request.body.json, "callback_query")
    /\ Has(request.body.json.callback_query, "message")
    /\ Has(request.body.json.callback_query, "data")
    /\ request.body.json.callback_query.data = AdvancedAction

\* C9: for an authenticated callback query with a message and data
\* updateMessageSetupAdvanced exactly one outbound call is made, an
\* editMessageText for the chat and id of the originating message, and the
\* acknowledgment is returned as the inline reply only once it has succeeded.
C9_EditBeforeAcknowledgment ==
    (Handling /\ AdvancedCallback) =>
        /\ Len(calls) = 1
        /\ calls[1].action = "editMessageText"
        /\ calls[1].data.chat_id = request.body.json.callback_query.message.chat.id
        /\ calls[1].data.message_id = request.body.json.callback_query.message.message_id
        /\ pc = "fetch" => (calls[1].answer = "pending" /\ reply = <<>> /\ responses = <<>>)
        /\ reply # <<>> =>
              /\ calls[1].answer = "ok"
              /\ reply = <<[method |-> "answerCallbackQuery"]>>
              /\ responses = <<respondIfReply(reply[1])>>
        /\ (Handled /\ calls[1].answer = "ok") => reply # <<>>

C9_Witness ==
    /\ Handled /\ AdvancedCallback
    /\ reply = <<[method |-> "answerCallbackQuery"]>>
    /\ calls[1].answer = "ok"
    /\ calls[1].data.chat_id = Num(0 - 7)

-----------------------------------------------------------------------------
(* C10 *)

\* the text the first entity of the message spans
FirstEntityText ==
    LET message == request.body.json.message
    IN  StringSlice(message.text, message.entities[1].offset,
                    message.entities[1].offset + message.entities[1].length)

\* the update is a message whose first entity spans /setup or /setup@<botname>
SetupMessage ==
    /\ UpdateAuthenticated
    /\ request.body.json # JSONNull
    /\ Has(request.body.json, "message")
    /\ Has(request.body.json.message, "entities")
    /\ request.body.json.message.entities # <<>>
    /\ Has(request.body.json.message, "text")
    /\ \/ FirstEntityText = SetupCommand
       \/ StartsWith(FirstEntityText, SetupCommand \o <<"@">>)

\* <baseURL>/github/c/sign(c), sign(c) being the URL-safe digest of c
BindingURL(c) ==
    options.baseURL \o <<"/", "github", "/">> \o NumberToString(c) \o <<"/">>
        \o safeHMAC(options, NumberToString(c))

\* C10: for an authenticated message from chat c whose first entity spans
\* /setup or /setup@<botname> the inline reply is a sendMessage to c whose
\* text holds the URL <baseURL>/github/c/sign(c) between its fixed parts and
\* which carries one inline button with callback payload
\* updateMessageSetupAdvanced; no outbound call is made.
C10_SetupReply ==
    (Handling /\ SetupMessage) =>
        LET c == request.body.json.message.chat.id
        IN  /\ Handled /\ Status = 200 /\ NoOutboundCall
            /\ Len(reply) = 1
            /\ reply[1].method = "sendMessage"
            /\ reply[1].chat_id = c
            /\ reply[1].text = SetupTextHead \o BindingURL(c) \o SetupTextTail
            /\ Len(reply[1].reply_markup.inline_keyboard) = 1
            /\ Len(reply[1].reply_markup.inline_keyboard[1]) = 1
            /\ reply[1].reply_markup.inline_keyboard[1][1].callback_data = AdvancedAction
            /\ responses[1].body = [json |-> reply[1]]

C10_Witness ==
    /\ Handled /\ SetupMessage
    /\ FirstEntityText = SetupCommand \o <<"@", "b">>
    /\ request.body.json.message.chat.id = Num(0 - 7)
    /\ reply[1].text = SetupTextHead \o BindingURL(Num(0 - 7)) \o SetupTextTail
    /\ \E i \in 1..Len(reply[1].text) : reply[1].text[i] = "+"

-----------------------------------------------------------------------------
(* C11 *)

\* the update is a message without entities: the list is absent or empty
MessageWithoutEntities ==
    /\ UpdateAuthenticated
    /\ request.body.json # JSONNull
    /\ Has(request.body.json, "message")
    /\ \/ ~Has(request.body.json.message, "entities")
       \/ request.body.json.message.entities = <<>>

\* C11: an authenticated update carrying a message with no entities produces
\* no reply and no error: it is answered 200 with the plain text Success and
\* no outbound call is made.
C11_NoEntitiesIgnored ==
    (Handling /\ MessageWithoutEntities) =>
        /\ Handled /\ NoOutboundCall
        /\ failure = <<>>
        /\ reply = <<Undefined>>
        /\ responses = <<[status |-> 200, body |-> [text |-> "Success"]]>>

C11_Witness ==
    /\ Handled /\ MessageWithoutEntities
    /\ Has(request.body.json.message, "entities")
    /\ Has(request.body.json.message, "text")
    /\ request.body.json.message.text = SetupCommand
    /\ Status = 200

-----------------------------------------------------------------------------
(* C12 *)

\* the path is /telegramUpdate/<secret> or /github/<chatID>/<token>
EndpointPath ==
    \/ Len(PathParts(request.url)) = 2 /\ PathParts(request.url)[1] = <<"telegramUpdate">>
    \/ Len(PathParts(request.url)) = 3 /\ PathParts(request.url)[1] = <<"github">>

NoEntryPoint == entry = "none" /\ NoOutboundCall

\* C12: a request is answered 405 exactly when its path is one of the two
\* endpoint paths and its method is not POST, and such a request invokes no
\* entry point and makes no outbound call.
C12_MethodNotAllowed ==
    Handling =>
        /\ Handled => ((Status = 405) <=> (EndpointPath /\ request.method # "POST"))
        /\ (EndpointPath /\ request.method # "POST") => (Handled /\ NoEntryPoint)

-----------------------------------------------------------------------------
(* C13 *)

\* C13: every POST request whose path is neither /telegramUpdate/<secret>
\* nor /github/<chatID>/<token> (another first segment or another number of
\* segments) is answered 404 without invoking either entry point.
C13_OtherShapeNotFound ==
    (Handling /\ request.method = "POST" /\ ~EndpointPath) =>
        /\ Handled
        /\ responses = <<serveNotFound>>
        /\ NoEntryPoint
        /\ reply = <<>>
        /\ failure = <<>>

C13_Witness ==
    /\ Handled
    /\ request.method = "POST"
    /\ Len(PathParts(request.url)) = 4
    /\ PathParts(request.url)[1] = <<"github">>
    /\ Status = 404

-----------------------------------------------------------------------------
(* C14 *)

\* C14 as stated: the setWebhook call gates readiness, no inbound request
\* is accepted and handled before that call has completed or failed.
C14_Original == Handling => setup # "calling"

\* C14 as amended: the listener is started before setWebhook is called, so
\* requests are accepted and handled while that call is pending; the call
\* is settled once, and after it has failed the process is gone: no request
\* is accepted, resumed or answered any more.
C14_SetupOutcome ==
    [][/\ setup = "failed" =>
            UNCHANGED <<request, pc, calls, entry, failure, reply, responses>>
       /\ setup # "calling" => setup' = setup]_vars

C14_Witness ==
    /\ Handled
    /\ setup = "calling"
    /\ entry = "githubEvent"
    /\ Len(calls) = 1
    /\ calls[1].answer = "ok"
    /\ Status = 200

-----------------------------------------------------------------------------
(* C15 *)

\* C15: the URL issued for a chat is always accepted: for every chat c and
\* every MAC value, a POST to the path of generateWebhookURL(c) with a
\* supported event type is routed to githubEvent with chatID c and passes
\* verification, so it is answered neither 404 nor 400.
C15_IssuedURLAccepted ==
    \A c \in ChatIDs :
        (Handled /\ request.method = "POST"
            /\ URLPathname(request.url) = IssuedPath(c)
            /\ PresentedEvent \in {"ping", "push"}
            /\ request.body.wellFormed
            /\ request.body.json \in {PingPayload} \cup PushPayloads)
        => (/\ entry = "githubEvent"
            /\ GitHubPost
            /\ PresentedChatID = c
            /\ verifyWebhookURL(options, PresentedChatID, PresentedToken)
            /\ Status \notin {400, 404})

-----------------------------------------------------------------------------
(* C16 *)

\* the chat platform answered the call with a success status (res.ok)
AcceptedByPlatform(call) == call.answer \in {"ok", "okNotJSON"}

\* C16: every inbound request succeeds or fails atomically with no retry: at
\* most one outbound call is issued per inbound request, and whenever the
\* request is answered with a non-200 status, no sendMessage or
\* editMessageText of that request was accepted by the chat platform.
C16_AtomicNoRetry ==
    Handling =>
        /\ Len(calls) <= 1
        /\ (Handled /\ Status # 200) =>
               \A i \in 1..Len(calls) :
                   calls[i].action \in {"sendMessage", "editMessageText"}
                       => ~AcceptedByPlatform(calls[i])

-----------------------------------------------------------------------------
(* C17 *)

\* an authenticated update that carries a callback query and no message
CallbackUpdate ==
    /\ UpdateAuthenticated
    /\ request.body.json # JSONNull
    /\ ~Has(request.body.json, "message")
    /\ Has(request.body.json, "callback_query")

\* the callback query has an attached message and a data payload (an empty
\* payload is no payload)
CallbackComplete ==
    /\ Has(request.body.json.callback_query, "message")
    /\ Has(request.body.json.callback_query, "data")
    /\ request.body.json.callback_query.data # <<>>

\* C17: an authenticated callback query with an attached message and a data
\* payload other than updateMessageSetupAdvanced gets the answerCallbackQuery
\* acknowledgment as inline reply and makes no outbound call; a callback
\* query missing its message or its data gets no reply and makes no outbound
\* call.
C17_OtherCallback ==
    (Handling /\ CallbackUpdate) =>
        /\ (CallbackComplete
                /\ request.body.json.callback_query.data # AdvancedAction) =>
              /\ Handled /\ NoOutboundCall
              /\ failure = <<>>
              /\ reply = <<[method |-> "answerCallbackQuery"]>>
              /\ responses = <<[status |-> 200, contentType |-> "application/json",
                                body |-> [json |-> [method |-> "answerCallbackQuery"]]]>>
        /\ ~CallbackComplete =>
              /\ Handled /\ NoOutboundCall
              /\ failure = <<>>
              /\ reply = <<Undefined>>
              /\ responses = <<[status |-> 200, body |-> [text |-> "Success"]]>>

C17_Witness ==
    /\ Handled /\ CallbackUpdate /\ CallbackComplete
    /\ request.body.json.callback_query.data = <<"other">>
    /\ reply = <<[method |-> "answerCallbackQuery"]>>
    /\ NoOutboundCall

-----------------------------------------------------------------------------
(* C20 *)

\* an authenticated update that carries both a message and a callback query
DoubleUpdate ==
    /\ UpdateAuthenticated
    /\ request.body.json # JSONNull
    /\ Has(request.body.json, "message")
    /\ Has(request.body.json, "callback_query")

\* C20: of an authenticated update with both a message and a callback query
\* only the message is interpreted: no outbound call (so no editMessageText)
\* is made and no answerCallbackQuery is returned, also when the message has
\* no entities and is ignored.
C20_MessageFirst ==
    (Handling /\ DoubleUpdate) =>
        /\ Handled /\ NoOutboundCall
        /\ failure = <<>>
        /\ reply # <<[method |-> "answerCallbackQuery"]>>
        /\ MessageWithoutEntities =>
              /\ reply = <<Undefined>>
              /\ responses = <<[status |-> 200, body |-> [text |-> "Success"]]>>
        /\ SetupMessage =>
              /\ reply # <<>>
              /\ reply[1].method = "sendMessage"
              /\ reply[1].chat_id = request.body.json.message.chat.id

C20_Witness ==
    /\ Handled /\ DoubleUpdate /\ MessageWithoutEntities
    /\ AdvancedAction = request.body.json.callback_query.data
    /\ Has(request.body.json.callback_query, "message")
    /\ reply = <<Undefined>>
    /\ NoOutboundCall

-----------------------------------------------------------------------------
(* C18 *)

\* the query strings that contain the key silent
SilentSearches ==
    {<<"silent">>, <<"silent", "=", "1">>, <<"x", "=", "1", "&", "silent">>}

\* C18: for every accepted GitHub event request the outbound sendMessage has
\* disable_notification = true exactly when the query string of the request
\* contains the key silent, with or without a value, and the fields of the
\* formatted message override neither chat_id nor disable_notification.
C18_SilentFlag ==
    (Handling /\ entry = "githubEvent" /\ calls # <<>>) =>
        /\ Len(calls) = 1
        /\ calls[1].action = "sendMessage"
        /\ calls[1].data.disable_notification
               = (URLSearch(request.url) \in SilentSearches)
        /\ calls[1].data.chat_id = PresentedChatID
        /\ DOMAIN calls[1].data =
               {"chat_id", "disable_notification", "parse_mode", "text",
                "disable_web_page_preview"}

C18_Witness ==
    /\ Handled
    /\ entry = "githubEvent"
    /\ URLSearch(request.url) = <<"x", "=", "1", "&", "silent">>
    /\ Len(calls) = 1
    /\ calls[1].answer = "ok"
    /\ calls[1].data.disable_notification
    /\ calls[1].data.chat_id = Num(0 - 7)

-----------------------------------------------------------------------------
(* C19 *)

\* the locals of the first invocation of the callback
Frame ==
    [request |-> request, pc |-> pc, calls |-> calls, entry |-> entry,
     failure |-> failure, reply |-> reply, responses |-> responses]

\* the frames a request goes through when it is handled alone
AloneFrames(opts, req) ==
    {ServeFrame(opts, req)}
        \cup {ResumeFrame(opts, ServeFrame(opts, req), answer) :
                 answer \in IF ServeFrame(opts, req).pc = "fetch"
                            THEN Answers ELSE {}}

HandledAsAlone(frame) ==
    IF frame.pc = "idle" THEN frame = IdleFrame
    ELSE frame \in AloneFrames(options, frame.request)

\* C19: requests are independent under concurrency: the configuration is
\* never written after construction, and in every interleaving of two
\* handlers the response and the outbound calls of each request are those
\* of that request handled alone; a step of one handler leaves the other
\* untouched.
C19_Independent ==
    /\ [](HandledAsAlone(Frame) /\ HandledAsAlone(peer))
    /\ [][/\ options' = options
          /\ peer' # peer => Frame' = Frame
          /\ Frame' # Frame => peer' = peer]_vars

C19_Witness ==
    /\ Handled
    /\ entry = "githubEvent"
    /\ Len(calls) = 1 /\ calls[1].answer = "ok"
    /\ Status = 200
    /\ peer.pc = "done"
    /\ peer.entry = "telegramUpdate"
    /\ Len(peer.calls) = 1 /\ peer.calls[1].answer = "error"
    /\ peer.responses = <<serveInternalServerError>>

====
